---- MODULE Spec2Model ----
(***************************************************************************)
(* Model of the serverless action dispatcher and its Supabase gateway.     *)
(*                                                                         *)
(* Two revisions of api/index.js are modelled side by side:                *)
(*   rev = "A"  src/unnamed/part_000          (always answers errors 500)  *)
(*   rev = "B"  src/api/index.js, 169..416    (400 for JSON/Missing text)  *)
(* Lines 1..168 of src/api/index.js are a truncated copy of a third        *)
(* revision whose gateway and method gate are those of revision B.         *)
(***************************************************************************)
EXTENDS Integers, Sequences, FiniteSets, TLC

(***************************************************************************)
(* Bounds of the model.                                                    *)
(***************************************************************************)
\* Invocations of the handler that may be in progress at the same time.
MaxRequests == 2

\* Requests served in all when finished invocations are retired.
MaxServed == 3

(***************************************************************************)
(* JavaScript values.  Every value is a record of the same shape so that   *)
(* values of different JavaScript types can be compared.                   *)
(***************************************************************************)
Undef == [t |-> "undef", n |-> 0, s |-> ""]

Num(k) == [t |-> "num", n |-> k, s |-> ""]

Str(x) == [t |-> "str", n |-> 0, s |-> x]

\* ToBoolean: undefined, null, 0, "" and false are falsy.
Truthy(v) ==
    CASE v.t = "undef" -> FALSE
      [] v.t = "null" -> FALSE
      [] v.t = "num" -> v.n # 0
      [] v.t = "str" -> v.s # ""
      [] v.t = "bool" -> v.n = 1
      [] OTHER -> TRUE

\* typeof v === 'number'
IsNumber(v) == v.t = "num"

RECURSIVE NatStr(_)
NatStr(k) ==
    LET d == <<"0", "1", "2", "3", "4", "5", "6", "7", "8", "9">>
    IN IF k < 10 THEN d[k + 1] ELSE NatStr(k \div 10) \o d[(k % 10) + 1]

\* Template-literal conversion `${v}`.
JsToString(v) ==
    CASE v.t = "undef" -> "undefined"
      [] v.t = "null" -> "null"
      [] v.t = "num" -> IF v.n < 0 THEN "-" \o NatStr(-v.n) ELSE NatStr(v.n)
      [] v.t = "str" -> v.s
      [] v.t = "bool" -> IF v.n = 1 THEN "true" ELSE "false"
      [] OTHER -> "[object Object]"

\* String.prototype.includes
Includes(s, sub) ==
    \E i \in 1..(Len(s) - Len(sub) + 1) : SubSeq(s, i, i + Len(sub) - 1) = sub

(***************************************************************************)
(* Request bodies.  raw is what the body text is: not JSON at all, no      *)
(* bytes, or a JSON value of one of the six JSON kinds.  f holds the       *)
(* properties the handler reads from a JSON object (Undef: absent).        *)
(***************************************************************************)
NoFields ==
    [userId |-> Undef, action |-> Undef, points |-> Undef, reward |-> Undef,
     task |-> Undef, newPoints |-> Undef, newUsdt |-> Undef]

Raw(kind) == [raw |-> kind, f |-> NoFields]

Obj(u, a) == [raw |-> "object", f |-> [NoFields EXCEPT !.userId = u, !.action = Str(a)]]

With(b, field, v) == [b EXCEPT !.f[field] = v]

Bodies ==
    { Raw("malformed"), Raw("empty"), Raw("null"), Raw("array"), Raw("string"),
      Raw("number"), Raw("boolean"), Raw("object"),
      [raw |-> "object", f |-> [NoFields EXCEPT !.userId = Str("u1")]],
      [raw |-> "object", f |-> [NoFields EXCEPT !.action = Str("spin")]],
      Obj(Str(""), "spin"), Obj(Num(0), "spin"), Obj(Str("u1"), ""),
      Obj(Str("u1"), "getBalanceAndTaskStatus"),
      Obj(Str("ghost"), "getBalanceAndTaskStatus"),
      With(Obj(Str("u1"), "addPoints"), "points", Num(5)),
      With(Obj(Str("u1"), "addPoints"), "points", Num(-1)),
      With(Obj(Str("u1"), "addPoints"), "points", Str("5")),
      With(Obj(Str("ghost"), "addPoints"), "points", Num(5)),
      With(With(Obj(Str("u1"), "claimTaskReward"), "task", Str("joinChannel")), "reward", Num(2)),
      With(With(Obj(Str("u1"), "claimTaskReward"), "task", Str("other")), "reward", Num(2)),
      With(Obj(Str("u1"), "claimTaskReward"), "task", Str("joinChannel")),
      With(Obj(Str("u1"), "watchAd"), "reward", Num(5)),
      With(Obj(Str("ghost"), "watchAd"), "reward", Num(5)),
      Obj(Str("u1"), "watchAd"),
      With(With(With(Obj(Str("u1"), "executeSwap"), "points", Num(5)), "newPoints", Num(0)), "newUsdt", Num(1)),
      With(With(With(Obj(Str("u1"), "executeSwap"), "points", Num(5)), "newPoints", Num(-5)), "newUsdt", Num(1)),
      With(With(Obj(Str("u1"), "executeSwap"), "newPoints", Num(3)), "newUsdt", Num(1)),
      With(With(With(Obj(Str("u1"), "executeSwap"), "points", Num(5)), "newPoints", Num(5)), "newUsdt", Num(0)),
      Obj(Str("u1"), "spin"), Obj(Str("u1"), "ref"),
      Obj(Str("u1"), "unknownThing"), Obj(Str("u1"), "exportJSON"),
      Obj(Str("u1"), "listMissing") }

Methods == {"POST", "OPTIONS", "GET"}

(***************************************************************************)
(* The users table of the data service: one row per account id.            *)
(***************************************************************************)
ExistingIds == {"u1"}

Row(p, u, t, j, a) == [points |-> p, usdt |-> u, ticket |-> t, join_status |-> j, ads_left |-> a]

InitRows == { Row(10, 0, 2, "join", 5), Row(0, 0, 0, "check", 0), Row(0, 1, 0, "claimed", 1) }

\* Columns a PATCH assigns (Undef: column not in the PATCH body).
NoPatch ==
    [points |-> Undef, usdt |-> Undef, ticket |-> Undef, join_status |-> Undef,
     ads_left |-> Undef]

\* A filter expression `id=eq.<id>[&<cond>]`.
Filter(id, cond) == [id |-> id, cond |-> cond]

NoFilter == Filter("", "none")

(***************************************************************************)
(* Remote data gateway: callSupabase.                                      *)
(***************************************************************************)
\* A call the gateway issues: table, HTTP method, PATCH columns, filter.
Call(table, method, patch, filter) ==
    [table |-> table, method |-> method, patch |-> patch, filter |-> filter]

NoCall == Call("", "", NoPatch, NoFilter)

\* The Prefer header callSupabase puts on the outbound request.
PreferHeader(rv, table, method) ==
    IF rv = "A"
    THEN IF method = "PATCH" \/ method = "POST" THEN "return=representation"
         ELSE IF method = "POST" /\ table = "actions_log" THEN "return=minimal"
         ELSE "absent"
    ELSE IF method = "POST" /\ table = "actions_log" THEN "return=minimal"
         ELSE IF method = "PATCH" \/ method = "POST" THEN "return=representation"
         ELSE "absent"

\* A parsed JSON response body: a sequence of rows, null, another object,
\* or text that is not JSON ("invalid": response.json() throws).
Json(t, rows) == [t |-> t, rows |-> rows]

\* What fetch gives back: an HTTP response, or a transport failure.
Http(status, body, text) == [kind |-> "http", status |-> status, body |-> body, text |-> text]

NetErr(text) == [kind |-> "neterr", status |-> 0, body |-> Json("none", <<>>), text |-> text]

NoReply == [kind |-> "none", status |-> 0, body |-> Json("none", <<>>), text |-> ""]

\* response.ok
ResponseOk(r) == r.status >= 200 /\ r.status <= 299

\* What callSupabase hands to its caller: a value, or a thrown Error.
Returned(t, rows) == [thrown |-> FALSE, msg |-> "", t |-> t, rows |-> rows]

Thrown(msg) == [thrown |-> TRUE, msg |-> msg, t |-> "none", rows |-> <<>>]

NoResult == [thrown |-> FALSE, msg |-> "", t |-> "none", rows |-> <<>>]

\* Normalize with the length test loosened: any non-empty row-set is
\* replaced by its first element.
NormalizeFirstRow(body) ==
    IF body.t = "array" /\ Len(body.rows) >= 1
    THEN [thrown |-> FALSE, msg |-> "", t |-> "row", rows |-> <<body.rows[1]>>]
    ELSE [thrown |-> FALSE, msg |-> "", t |-> body.t, rows |-> body.rows]

\* The single-row normalisation of a parsed body.
Normalize(body) ==
    IF body.t = "array" /\ Len(body.rows) = 1
    THEN Returned("row", body.rows)
    ELSE Returned(body.t, body.rows)

\* `Supabase ... Error` text for a non-2xx response.
HttpErrorText(rv, r) ==
    IF rv = "A"
    THEN "Supabase Error: " \o NatStr(r.status) \o " - " \o r.text
    ELSE "Supabase API Error " \o NatStr(r.status) \o ": " \o r.text

\* The try block of callSupabase, from the fetch result on.
HandleResponse(rv, r) ==
    IF r.kind = "neterr" THEN Thrown("Database operation failed: " \o r.text)
    ELSE IF ResponseOk(r)
    THEN IF r.status = 204 THEN Returned("marker", <<>>)
         ELSE IF r.body.t = "invalid"
              THEN Thrown("Database operation failed: " \o r.text)
              ELSE Normalize(r.body)
    ELSE Thrown("Database operation failed: " \o HttpErrorText(rv, r))

\* The credentials guard at the top of callSupabase (revision B only).
CredentialsError(rv, conf) == rv = "B" /\ ~conf

\* callSupabase as a whole, given what fetch produced.
CallSupabase(rv, conf, r) ==
    IF CredentialsError(rv, conf)
    THEN Thrown("Supabase credentials are not configured.")
    ELSE HandleResponse(rv, r)

(***************************************************************************)
(* The data service behind the gateway (PostgREST semantics).              *)
(***************************************************************************)
Matches(tbl, flt) ==
    /\ flt.id \in DOMAIN tbl
    /\ CASE flt.cond = "none" -> TRUE
         [] flt.cond = "join_status=eq.check" -> tbl[flt.id].join_status = "check"
         [] flt.cond = "ads_left=gt.0" -> tbl[flt.id].ads_left > 0
         [] OTHER -> FALSE

ApplyPatch(row, patch) ==
    [points |-> IF patch.points.t = "num" THEN patch.points.n ELSE row.points,
     usdt |-> IF patch.usdt.t = "num" THEN patch.usdt.n ELSE row.usdt,
     ticket |-> IF patch.ticket.t = "num" THEN patch.ticket.n ELSE row.ticket,
     join_status |-> IF patch.join_status.t = "str" THEN patch.join_status.s ELSE row.join_status,
     ads_left |-> IF patch.ads_left.t = "num" THEN patch.ads_left.n ELSE row.ads_left]

\* The users table after the service has executed the call.
ServiceTable(tbl, c) ==
    IF c.table = "users" /\ c.method = "PATCH" /\ Matches(tbl, c.filter)
    THEN [tbl EXCEPT ![c.filter.id] = ApplyPatch(tbl[c.filter.id], c.patch)]
    ELSE tbl

\* The response of the service to a call on the users table.
ServiceReply(tbl, c) ==
    IF Matches(tbl, c.filter)
    THEN Http(200, Json("array", <<ServiceTable(tbl, c)[c.filter.id]>>), "")
    ELSE Http(200, Json("array", <<>>), "")

\* Replies other than the one the service computes from the table: transport
\* failure, a non-success status, a body that is not JSON, no content, and
\* bodies that are not a row-set of the filtered account.
FaultReplies ==
    { NetErr("fetch failed"),
      Http(503, Json("none", <<>>), "upstream unavailable"),
      Http(200, Json("invalid", <<>>), "Unexpected token < in JSON at position 0"),
      Http(204, Json("none", <<>>), ""),
      Http(200, Json("null", <<>>), ""),
      Http(200, Json("object", <<>>), ""),
      Http(200, Json("array", <<Row(1, 1, 1, "join", 1), Row(2, 2, 2, "join", 2)>>), "") }

(***************************************************************************)
(* Action dispatcher: the synchronous sections of module.exports.          *)
(***************************************************************************)
DefaultAdsLeft == 300

\* a || b
Or(a, b) == IF Truthy(a) THEN a ELSE b

\* Property access on what callSupabase returned: only an unwrapped row has
\* the account columns; on an array, the 204 marker or another object the
\* property is undefined.
Field(res, col) ==
    IF res.t = "row"
    THEN IF col = "join_status" THEN Str(res.rows[1][col]) ELSE Num(res.rows[1][col])
    ELSE Undef

\* !value for what callSupabase returned: arrays and objects are truthy.
Falsy(res) == res.t = "null"

\* The handler payload spread into a success body (Undef: property absent,
\* JSON.stringify drops undefined properties).
NoData ==
    [message |-> Undef, points |-> Undef, usdt |-> Undef, ticket |-> Undef,
     joinTaskStatus |-> Undef, adsLeft |-> Undef, newPoints |-> Undef,
     newUsdt |-> Undef]

Message(m) == [NoData EXCEPT !.message = Str(m)]

\* Outcomes of a synchronous section: throw, produce the payload, or await a
\* gateway call.  logged: logAction has been called on the way.
Throw(msg, logged) ==
    [kind |-> "throw", msg |-> msg, data |-> NoData, call |-> NoCall, logged |-> logged]

Respond(data) ==
    [kind |-> "respond", msg |-> "", data |-> data, call |-> NoCall, logged |-> TRUE]

Await(c) ==
    [kind |-> "call", msg |-> "", data |-> NoData, call |-> c, logged |-> TRUE]

\* Reading and parsing the request body.
ParseBody(rv, b) ==
    IF b.raw = "malformed" THEN Thrown("Invalid JSON format in request body.")
    ELSE IF b.raw = "empty"
    THEN IF rv = "A" THEN Thrown("Invalid JSON format in request body.")
         ELSE Returned("object", <<>>)
    ELSE Returned(b.raw, <<>>)

\* The body value the handler destructures.
ParsedBody(rv, b) == IF b.raw = "empty" /\ rv = "B" THEN Raw("object") ELSE b

\* const { userId, action, ...data } = body
Destructure(b) == IF b.raw = "object" THEN b.f ELSE NoFields

\* The users filter `id=eq.${userId}` with an optional second condition.
UserFilter(f, cond) == Filter(JsToString(f.userId), cond)

\* ClaimFilter without the join_status condition: any row of the user matches.
ClaimFilterIdOnly(f) == UserFilter(f, "none")

\* `id=eq.${userId}&join_status=eq.check`
ClaimFilter(f) == UserFilter(f, "join_status=eq.check")

\* InvalidPoints without the sign check: any number passes.
InvalidPointsTypeOnly(f) == ~IsNumber(f.points)

\* typeof points !== 'number' || points < 0
InvalidPoints(f) == ~IsNumber(f.points) \/ f.points.n < 0

\* switch (action), up to the first await or the break.
Dispatch(rv, f) ==
    LET a == IF f.action.t = "str" THEN f.action.s ELSE ""
    IN CASE a = "getBalanceAndTaskStatus" ->
              Await(Call("users", "GET", NoPatch, UserFilter(f, "none")))
         [] a = "addPoints" ->
              IF InvalidPoints(f)
              THEN Throw("Invalid points value.", TRUE)
              ELSE IF rv = "A"
              THEN Await(Call("users", "PATCH", [NoPatch EXCEPT !.points = f.points],
                              UserFilter(f, "none")))
              ELSE Respond(Message("Requested addition of " \o JsToString(f.points)
                                   \o " points."))
         [] a = "claimTaskReward" ->
              IF f.task # Str("joinChannel") \/ ~IsNumber(f.reward)
              THEN Throw(IF rv = "A" THEN "Invalid task or reward data."
                         ELSE "Invalid task data.", TRUE)
              ELSE IF rv = "A"
              THEN Await(Call("users", "PATCH",
                              [NoPatch EXCEPT !.ticket = f.reward,
                                              !.join_status = Str("claimed")],
                              ClaimFilter(f)))
              ELSE Respond(Message("Requested claim for " \o JsToString(f.reward)
                                   \o " tickets for " \o JsToString(f.task) \o "."))
         [] a = "watchAd" ->
              IF ~IsNumber(f.reward)
              THEN Throw(IF rv = "A" THEN "Invalid ad reward value."
                         ELSE "Invalid ad reward.", TRUE)
              ELSE IF rv = "A"
              THEN Await(Call("users", "PATCH",
                              [NoPatch EXCEPT !.ticket = f.reward, !.ads_left = Num(-1)],
                              UserFilter(f, "ads_left=gt.0")))
              ELSE Respond(Message("Requested ad watch and " \o JsToString(f.reward)
                                   \o " ticket addition."))
         [] a = "executeSwap" ->
              IF (rv = "A" /\ ~IsNumber(f.points)) \/ ~IsNumber(f.newPoints)
                 \/ ~Truthy(f.newUsdt)
              THEN Throw("Invalid swap data.", TRUE)
              ELSE IF rv = "A"
              THEN Await(Call("users", "PATCH",
                              [NoPatch EXCEPT !.points = f.newPoints, !.usdt = f.newUsdt],
                              UserFilter(f, "none")))
              ELSE Respond([Message("Swap request sent for processing.")
                            EXCEPT !.newPoints = f.newPoints, !.newUsdt = f.newUsdt])
         [] a = "spin" ->
              Respond(Message(IF rv = "A"
                              THEN "Spin executed successfully, checking for reward..."
                              ELSE "Spin request sent."))
         [] a = "ref" ->
              Respond(Message(IF rv = "A" THEN "Referral menu data prepared."
                              ELSE "Referral data requested."))
         [] OTHER -> Throw("Unknown action: " \o JsToString(f.action), TRUE)

\* SyncSection with logAction called before the userId/action check.
SyncSectionLogsFirst(rv, b) ==
    LET p == ParseBody(rv, b)
        f == Destructure(ParsedBody(rv, b))
    IN IF p.thrown THEN Throw(p.msg, FALSE)
       ELSE IF p.t = "null"
       THEN Throw("Cannot destructure property 'userId' of 'body' as it is null.", FALSE)
       ELSE IF ~Truthy(f.userId) \/ ~Truthy(f.action)
       THEN Throw("Missing required parameters: userId or action.", TRUE)
       ELSE Dispatch(rv, f)

\* From the end of the body read to the first await, the response or the throw.
SyncSection(rv, b) ==
    LET p == ParseBody(rv, b)
        f == Destructure(ParsedBody(rv, b))
    IN IF p.thrown THEN Throw(p.msg, FALSE)
       ELSE IF p.t = "null"
       THEN Throw("Cannot destructure property 'userId' of 'body' as it is null.", FALSE)
       ELSE IF ~Truthy(f.userId) \/ ~Truthy(f.action)
       THEN Throw("Missing required parameters: userId or action.", FALSE)
       ELSE Dispatch(rv, f)

\* The rest of the case after the awaited gateway call has settled.
Continue(rv, f, res) ==
    LET a == f.action.s
    IN IF res.thrown THEN Throw(res.msg, TRUE)
       ELSE CASE a = "getBalanceAndTaskStatus" ->
                   IF Falsy(res)
                   THEN Throw(IF rv = "A"
                              THEN "User not found in DB. Please ensure user registration/upsert is handled."
                              ELSE "User data not found. Please ensure user registration/upsert is implemented.",
                              TRUE)
                   ELSE Respond([NoData EXCEPT
                            !.points = Field(res, "points"),
                            !.usdt = Field(res, "usdt"),
                            !.ticket = Field(res, "ticket"),
                            !.joinTaskStatus =
                                IF rv = "A" THEN Or(Field(res, "join_status"), Str("join"))
                                ELSE Field(res, "join_status"),
                            !.adsLeft =
                                IF rv = "A" THEN Or(Field(res, "ads_left"), Num(DefaultAdsLeft))
                                ELSE Field(res, "ads_left")])
              [] a = "addPoints" ->
                   Respond(Message("Successfully added " \o JsToString(f.points) \o " points."))
              [] a = "claimTaskReward" ->
                   IF Falsy(res)
                   THEN Throw("Claim failed. Task not ready or already claimed.", TRUE)
                   ELSE Respond(Message("Reward of " \o JsToString(f.reward)
                                        \o " tickets claimed for " \o JsToString(f.task) \o "."))
              [] a = "watchAd" ->
                   IF Falsy(res)
                   THEN Throw("Ad claim failed. No ads left to watch.", TRUE)
                   ELSE Respond(Message("Ad watched. " \o JsToString(f.reward)
                                        \o " ticket added."))
              [] OTHER ->
                   Respond([Message("Swap successful")
                            EXCEPT !.newPoints = f.newPoints, !.newUsdt = f.newUsdt])

(***************************************************************************)
(* Responses.                                                              *)
(***************************************************************************)
\* MethodGate without the second check: every method but OPTIONS proceeds.
MethodGateOptionsOnly(m) == IF m = "OPTIONS" THEN "preflight" ELSE "proceed"

\* The two method checks at the top of module.exports.
MethodGate(m) ==
    IF m = "OPTIONS" THEN "preflight"
    ELSE IF m # "POST" THEN "reject"
    ELSE "proceed"

CorsHeaders ==
    { "Access-Control-Allow-Origin", "Access-Control-Allow-Methods",
      "Access-Control-Allow-Headers" }

Response(status, hdrs, empty, ok, error, action, data) ==
    [status |-> status, headers |-> hdrs, empty |-> empty, ok |-> ok,
     error |-> error, action |-> action, data |-> data]

\* The status code of the catch block.
ErrorStatus(rv, msg) ==
    IF rv = "A" THEN 500
    ELSE IF Includes(msg, "JSON") \/ Includes(msg, "Missing") THEN 400 ELSE 500

PreflightResponse(hdrs) == Response(204, hdrs, TRUE, FALSE, "", Undef, NoData)

MethodNotAllowed(hdrs) ==
    Response(405, hdrs \cup {"Content-Type"}, FALSE, FALSE,
             "Method Not Allowed. Only POST is supported.", Undef, NoData)

\* GateResponses with no return after the OPTIONS answer: the handler runs on
\* into the non-POST check and answers again.
GateResponsesNoReturn(m, hdrs) ==
    IF MethodGate(m) = "preflight"
    THEN <<PreflightResponse(hdrs), MethodNotAllowed(hdrs)>>
    ELSE IF MethodGate(m) = "reject" THEN <<MethodNotAllowed(hdrs)>>
    ELSE <<>>

\* The responses written by the two method checks before they return.
GateResponses(m, hdrs) ==
    IF MethodGate(m) = "preflight" THEN <<PreflightResponse(hdrs)>>
    ELSE IF MethodGate(m) = "reject" THEN <<MethodNotAllowed(hdrs)>>
    ELSE <<>>

ErrorResponse(rv, hdrs, msg) ==
    Response(ErrorStatus(rv, msg), hdrs \cup {"Content-Type"}, FALSE, FALSE, msg,
             Undef, NoData)

SuccessResponse(hdrs, action, data) ==
    Response(200, hdrs \cup {"Content-Type"}, FALSE, TRUE, "", action, data)

\* The response the handler writes for a finished outcome.
OutcomeResponse(rv, hdrs, f, o) ==
    IF o.kind = "throw" THEN ErrorResponse(rv, hdrs, o.msg)
    ELSE SuccessResponse(hdrs, f.action, o.data)

(***************************************************************************)
(* The audit-log write of logAction.                                       *)
(***************************************************************************)
\* The record logAction posts to actions_log.
AuditEntry(f, b) == [action |-> f.action, user_id |-> f.userId, payload |-> b]

NoEntry == AuditEntry(NoFields, Raw("none"))

\* What the service answers to the insert: 201, with the inserted row under
\* return=representation and with no body at all under return=minimal.
AuditReply(rv, e) ==
    IF PreferHeader(rv, "actions_log", "POST") = "return=minimal"
    THEN Http(201, Json("invalid", <<>>), "Unexpected end of JSON input")
    ELSE Http(201, Json("array", <<e>>), "")

AuditFaults ==
    { NetErr("fetch failed"), Http(503, Json("none", <<>>), "upstream unavailable") }

\* logAction without its .catch handler.
AuditErrorUnhandled == FALSE

\* logAction's .catch handler takes every rejection of the write and only
\* prints it: nothing is rethrown to the request.
AuditErrorAbsorbed == TRUE

Audit(state, stored, console) == [state |-> state, stored |-> stored, console |-> console]

(***************************************************************************)
(* State.                                                                  *)
(***************************************************************************)
VARIABLES
    rev,          \* the revision deployed: "A" or "B"
    configured,   \* SUPABASE_URL and SUPABASE_ANON_KEY are both set
    users,        \* users table: account id -> row
    actions_log,  \* actions_log table: number of rows inserted so far
    pc,           \* per invocation: idle, reading, awaiting, done, crashed
    method,       \* req.method
    body,         \* the request body read by the invocation
    bodyRead,     \* the invocation has read the request body
    headers,      \* headers set with res.setHeader
    call,         \* the awaited gateway call
    reply,        \* what fetch produced for the awaited call
    result,       \* what the awaited callSupabase returned or threw
    written,      \* sequence of responses written with writeHead/end
    audit,        \* the fire-and-forget audit write of the invocation
    entry,        \* the record that write carries
    nAudit,       \* number of logAction calls of the invocation
    nFetch,       \* number of users-table requests sent by the invocation
    prefer,       \* Prefer header of the requests the invocation has sent
    users0,       \* the users table before the first request
    served,       \* number of requests received so far
    reqno         \* per invocation: the ordinal of the request it serves

vars ==
    <<rev, configured, users, actions_log, pc, method, body, bodyRead, headers,
      call, reply, result, written, audit, entry, nAudit, nFetch, prefer,
      users0, served, reqno>>

Requests == 1..MaxRequests

\* The Prefer headers of an invocation that has sent no request.
NoneSent == [audit |-> "unsent", users |-> "unsent"]

Init ==
    /\ rev \in {"A", "B"}
    /\ configured \in (IF rev = "A" THEN {TRUE} ELSE BOOLEAN)
    /\ users \in [ExistingIds -> InitRows]
    /\ actions_log = 0
    /\ pc = [r \in Requests |-> "idle"]
    /\ method = [r \in Requests |-> ""]
    /\ body = [r \in Requests |-> Raw("none")]
    /\ bodyRead = [r \in Requests |-> FALSE]
    /\ headers = [r \in Requests |-> {}]
    /\ call = [r \in Requests |-> NoCall]
    /\ reply = [r \in Requests |-> NoReply]
    /\ result = [r \in Requests |-> NoResult]
    /\ written = [r \in Requests |-> <<>>]
    /\ audit = [r \in Requests |-> Audit("none", FALSE, FALSE)]
    /\ entry = [r \in Requests |-> NoEntry]
    /\ nAudit = [r \in Requests |-> 0]
    /\ nFetch = [r \in Requests |-> 0]
    /\ prefer = [r \in Requests |-> NoneSent]
    /\ users0 = users
    /\ served = 0
    /\ reqno = [r \in Requests |-> 0]

(***************************************************************************)
(* Actions.                                                                *)
(***************************************************************************)
\* module.exports from its entry to the first await: CORS headers, the
\* OPTIONS and non-POST answers, or the start of the body read.
Receive(r, m) ==
    /\ pc[r] = "idle"
    /\ IF r = 1 THEN TRUE ELSE pc[r - 1] # "idle"
    /\ served < MaxServed
    /\ served' = served + 1
    /\ reqno' = [reqno EXCEPT ![r] = served + 1]
    /\ method' = [method EXCEPT ![r] = m]
    /\ headers' = [headers EXCEPT ![r] = CorsHeaders]
    /\ written' = [written EXCEPT ![r] = @ \o GateResponses(m, CorsHeaders)]
    /\ pc' = [pc EXCEPT ![r] = IF MethodGate(m) = "proceed" THEN "reading" ELSE "done"]
    /\ UNCHANGED <<rev, configured, users, actions_log, body, bodyRead, call, reply,
                   result, audit, entry, nAudit, nFetch, prefer, users0>>

\* The body has arrived: parse, validate, logAction, switch; the section ends
\* with a response, or at the await of the case's gateway call.
BodyEnd(r, b) ==
    LET o == SyncSection(rev, b)
        f == Destructure(ParsedBody(rev, b))
        sent == o.kind = "call" /\ ~CredentialsError(rev, configured)
        res == IF o.kind = "call" THEN CallSupabase(rev, configured, NoReply)
               ELSE NoResult
        final == IF o.kind = "call" THEN Continue(rev, f, res) ELSE o
    IN /\ pc[r] = "reading"
       /\ body' = [body EXCEPT ![r] = b]
       /\ bodyRead' = [bodyRead EXCEPT ![r] = TRUE]
       /\ IF o.logged
          THEN /\ audit' = [audit EXCEPT ![r] = Audit("inflight", FALSE, FALSE)]
               /\ entry' = [entry EXCEPT ![r] = AuditEntry(f, ParsedBody(rev, b))]
               /\ nAudit' = [nAudit EXCEPT ![r] = @ + 1]
          ELSE UNCHANGED <<audit, entry, nAudit>>
       /\ IF sent
          THEN /\ call' = [call EXCEPT ![r] = o.call]
               /\ nFetch' = [nFetch EXCEPT ![r] = @ + 1]
               /\ pc' = [pc EXCEPT ![r] = "awaiting"]
               /\ UNCHANGED <<written, result>>
          ELSE /\ written' = [written EXCEPT ![r] =
                                 Append(@, OutcomeResponse(rev, headers[r], f, final))]
               /\ result' = [result EXCEPT ![r] = res]
               /\ pc' = [pc EXCEPT ![r] = "done"]
               /\ UNCHANGED <<call, nFetch>>
       /\ prefer' = [prefer EXCEPT ![r] =
             [audit |-> IF o.logged /\ ~CredentialsError(rev, configured)
                        THEN PreferHeader(rev, "actions_log", "POST") ELSE "unsent",
              users |-> IF sent THEN PreferHeader(rev, o.call.table, o.call.method)
                        ELSE "unsent"]]
       /\ UNCHANGED <<rev, configured, users, actions_log, method, headers, reply,
                      users0, served, reqno>>

\* The awaited call settles with rep: the case finishes and the response is
\* written.
Settle(r, rep) ==
    LET f == Destructure(ParsedBody(rev, body[r]))
        res == CallSupabase(rev, configured, rep)
        o == Continue(rev, f, res)
    IN /\ reply' = [reply EXCEPT ![r] = rep]
       /\ result' = [result EXCEPT ![r] = res]
       /\ written' = [written EXCEPT ![r] =
                         Append(@, OutcomeResponse(rev, headers[r], f, o))]
       /\ pc' = [pc EXCEPT ![r] = "done"]

\* The data service executes the awaited call and answers it.
GatewayServed(r) ==
    /\ pc[r] = "awaiting"
    /\ users' = ServiceTable(users, call[r])
    /\ Settle(r, ServiceReply(users, call[r]))
    /\ UNCHANGED <<rev, configured, actions_log, method, body, bodyRead, headers,
                   call, audit, entry, nAudit, nFetch, prefer, users0, served, reqno>>

\* The awaited call ends in one of the other replies; the table is untouched.
GatewayFault(r, rep) ==
    /\ pc[r] = "awaiting"
    /\ rep \in FaultReplies
    /\ Settle(r, rep)
    /\ UNCHANGED <<rev, configured, users, actions_log, method, body, bodyRead,
                   headers, call, audit, entry, nAudit, nFetch, prefer, users0, served,
                   reqno>>

\* What a rejected audit write does to the invocation: nothing when the
\* rejection is absorbed; an unhandled rejection ends the process.
AfterAudit(r, res) ==
    IF res.thrown /\ ~AuditErrorAbsorbed /\ pc[r] # "done"
    THEN pc' = [pc EXCEPT ![r] = "crashed"]
    ELSE pc' = pc

\* The service inserts the audit row and answers 201.
AuditStored(r) ==
    LET res == CallSupabase(rev, configured, AuditReply(rev, entry[r]))
    IN /\ audit[r].state = "inflight"
       /\ ~CredentialsError(rev, configured)
       /\ actions_log' = actions_log + 1
       /\ audit' = [audit EXCEPT ![r] = Audit("settled", TRUE, res.thrown)]
       /\ AfterAudit(r, res)
       /\ UNCHANGED <<rev, configured, users, method, body, bodyRead, headers, call,
                      reply, result, written, entry, nAudit, nFetch, prefer, users0,
                      served, reqno>>

\* The audit write fails: missing credentials, transport or HTTP error.
AuditFault(r, rep) ==
    LET res == CallSupabase(rev, configured, rep)
    IN /\ audit[r].state = "inflight"
       /\ rep \in AuditFaults
       /\ audit' = [audit EXCEPT ![r] = Audit("settled", FALSE, res.thrown)]
       /\ AfterAudit(r, res)
       /\ UNCHANGED <<rev, configured, users, actions_log, method, body, bodyRead,
                      headers, call, reply, result, written, entry, nAudit, nFetch,
                      prefer, users0, served, reqno>>

\* The invocation has returned: its locals are gone, and a write of its that
\* is still pending is never heard of again.  The next request starts afresh.
Retire(r) ==
    /\ pc[r] = "done"
    /\ served < MaxServed
    /\ pc' = [pc EXCEPT ![r] = "idle"]
    /\ method' = [method EXCEPT ![r] = ""]
    /\ body' = [body EXCEPT ![r] = Raw("none")]
    /\ bodyRead' = [bodyRead EXCEPT ![r] = FALSE]
    /\ headers' = [headers EXCEPT ![r] = {}]
    /\ call' = [call EXCEPT ![r] = NoCall]
    /\ reply' = [reply EXCEPT ![r] = NoReply]
    /\ result' = [result EXCEPT ![r] = NoResult]
    /\ written' = [written EXCEPT ![r] = <<>>]
    /\ audit' = [audit EXCEPT ![r] = Audit("none", FALSE, FALSE)]
    /\ entry' = [entry EXCEPT ![r] = NoEntry]
    /\ nAudit' = [nAudit EXCEPT ![r] = 0]
    /\ nFetch' = [nFetch EXCEPT ![r] = 0]
    /\ prefer' = [prefer EXCEPT ![r] = NoneSent]
    /\ reqno' = [reqno EXCEPT ![r] = 0]
    /\ UNCHANGED <<rev, configured, users, actions_log, users0, served>>

Next ==
    \/ \E r \in Requests, m \in Methods : Receive(r, m)
    \/ \E r \in Requests, b \in Bodies : BodyEnd(r, b)
    \/ \E r \in Requests : GatewayServed(r)
    \/ \E r \in Requests, rep \in FaultReplies : GatewayFault(r, rep)
    \/ \E r \in Requests : AuditStored(r)
    \/ \E r \in Requests, rep \in AuditFaults : AuditFault(r, rep)

\* Concurrent invocations, each serving one request.
Spec == Init /\ [][Next]_vars

\* One invocation at a time, serving one request after the other.
NextSerial ==
    \/ \E m \in Methods : Receive(1, m)
    \/ \E b \in Bodies : BodyEnd(1, b)
    \/ GatewayServed(1)
    \/ \E rep \in FaultReplies : GatewayFault(1, rep)
    \/ AuditStored(1)
    \/ \E rep \in AuditFaults : AuditFault(1, rep)
    \/ Retire(1)

SpecSerial == Init /\ [][NextSerial]_vars

(***************************************************************************)
(* Vocabulary of the properties.                                           *)
(***************************************************************************)
Done(r) == pc[r] = "done"

\* The response the client got.
Resp(r) == written[r][1]

\* Request r is a POST whose body is a JSON object with non-empty userId
\* and action.
Validated(r) ==
    /\ method[r] = "POST"
    /\ bodyRead[r]
    /\ body[r].raw = "object"
    /\ Truthy(body[r].f.userId)
    /\ Truthy(body[r].f.action)

IsAction(r, a) == Validated(r) /\ body[r].f.action = Str(a)

\* The account the request names exists in the users table.
AccountOf(r) == body[r].f.userId.s

HasAccount(r) == body[r].f.userId.t = "str" /\ AccountOf(r) \in DOMAIN users

\* The data service answered the awaited call with the empty row-set.
EmptyRowSet(r) == reply[r] = Http(200, Json("array", <<>>), "")

\* The data service answered the awaited call with exactly one row.
OneRow(r) ==
    /\ reply[r].kind = "http" /\ reply[r].status = 200
    /\ reply[r].body.t = "array" /\ Len(reply[r].body.rows) = 1

(***************************************************************************)
(* C1: a getBalanceAndTaskStatus request for a userId that matches no row  *)
(* (the filtered GET is answered with the empty row-set) gets ok:false     *)
(* with a not-found error, never ok:true.                                  *)
(***************************************************************************)
C1_UnknownAccountIsAnError ==
    \A r \in Requests :
        (Done(r) /\ IsAction(r, "getBalanceAndTaskStatus") /\ EmptyRowSet(r))
            => (~Resp(r).ok /\ Includes(Resp(r).error, "not found"))

(***************************************************************************)
(* C2: a watchAd request with a numeric reward for an account whose        *)
(* ads_left is 0 is answered ok:false with a no-ads-left error and leaves  *)
(* the account row as it was.                                              *)
(***************************************************************************)
C2_NoAdsLeftIsAnError ==
    [][\A r \in Requests :
          ( /\ pc[r] # "done" /\ pc'[r] = "done"
            /\ method[r] = "POST" /\ body'[r].raw = "object"
            /\ body'[r].f.action = Str("watchAd")
            /\ IsNumber(body'[r].f.reward)
            /\ body'[r].f.userId.t = "str"
            /\ body'[r].f.userId.s \in DOMAIN users
            /\ users[body'[r].f.userId.s].ads_left = 0
            /\ reply'[r] \notin FaultReplies )
          => ( /\ users' = users
               /\ ~written'[r][1].ok
               /\ Includes(written'[r][1].error, "No ads left") )]_vars

(***************************************************************************)
(* C3: from a points balance of 0, two addPoints requests of 5 points      *)
(* each, in any interleaving of their gateway calls, leave the balance at  *)
(* 10 once both have completed.                                            *)
(***************************************************************************)
AddsFive(r) ==
    /\ Done(r) /\ IsAction(r, "addPoints")
    /\ body[r].f.points = Num(5) /\ body[r].f.userId = Str("u1")
    /\ Resp(r).ok

C3_BothAdditionsCounted ==
    (users0["u1"].points = 0 /\ served = 2 /\ \E r1, r2 \in Requests :
        r1 # r2 /\ AddsFive(r1) /\ AddsFive(r2))
        => users["u1"].points = 10

(***************************************************************************)
(* C4: a POST whose body is valid JSON but lacks a non-empty userId or     *)
(* action is answered ok:false, 'Missing required parameters: userId or    *)
(* action.', with a 4xx status, in every revision.                         *)
(***************************************************************************)
ValidJson(r) == bodyRead[r] /\ body[r].raw \notin {"malformed", "empty"}

C4_MissingParametersIs4xx ==
    \A r \in Requests :
        (Done(r) /\ method[r] = "POST" /\ ValidJson(r) /\ ~Validated(r))
            => ( /\ ~Resp(r).ok
                 /\ Resp(r).error = "Missing required parameters: userId or action."
                 /\ Resp(r).status >= 400 /\ Resp(r).status <= 499 )

(***************************************************************************)
(* C5: in the revision of src/api/index.js an error response has status    *)
(* 400 exactly when the failure is a malformed body or a missing           *)
(* userId/action, and 500 for every other failure.                         *)
(***************************************************************************)
ClientFailure(r) == body[r].raw = "malformed" \/ ~Validated(r)

C5_StatusFollowsFailureKind ==
    \A r \in Requests :
        (rev = "B" /\ Done(r) /\ method[r] = "POST" /\ ~Resp(r).ok
         /\ body[r].raw # "null")
            => ( /\ ClientFailure(r) => Resp(r).status = 400
                 /\ ~ClientFailure(r) => Resp(r).status = 500 )

(***************************************************************************)
(* C6: for an existing account row, getBalanceAndTaskStatus answers 200,   *)
(* ok:true, with points, usdt, ticket, joinTaskStatus and adsLeft equal to *)
(* the stored points, usdt, ticket, join_status and ads_left.              *)
(***************************************************************************)
C6_BalanceEchoesTheRow ==
    \A r \in Requests :
        (Done(r) /\ IsAction(r, "getBalanceAndTaskStatus") /\ HasAccount(r) /\ OneRow(r))
            => LET row == reply[r].body.rows[1]
               IN /\ Resp(r).status = 200 /\ Resp(r).ok
                  /\ Resp(r).action = Str("getBalanceAndTaskStatus")
                  /\ Resp(r).data.points = Num(row.points)
                  /\ Resp(r).data.usdt = Num(row.usdt)
                  /\ Resp(r).data.ticket = Num(row.ticket)
                  /\ Resp(r).data.joinTaskStatus = Str(row.join_status)
                  /\ Resp(r).data.adsLeft = Num(row.ads_left)

(***************************************************************************)
(* C7: on a 2xx response other than 204, callSupabase returns the single   *)
(* element of a one-element sequence and returns every other parsed body   *)
(* (empty sequence, longer sequence, not a sequence) unchanged; on 204 it  *)
(* returns the success marker.                                             *)
(***************************************************************************)
C7_SingleRowUnwrapped ==
    \A r \in Requests :
        (Done(r) /\ reply[r].kind = "http" /\ ResponseOk(reply[r]))
            => LET b == reply[r].body
                   res == result[r]
               IN IF reply[r].status = 204
                  THEN ~res.thrown /\ res.t = "marker"
                  ELSE b.t # "invalid"
                       => /\ ~res.thrown
                          /\ IF b.t = "array" /\ Len(b.rows) = 1
                             THEN res.t = "row" /\ res.rows = <<b.rows[1]>>
                             ELSE res.t = b.t /\ res.rows = b.rows

C7_Witness ==
    \E r \in Requests :
        /\ Done(r) /\ OneRow(r) /\ reqno[r] > 1
        /\ result[r].t = "row" /\ result[r].rows = reply[r].body.rows

(***************************************************************************)
(* C8: a request whose method is not POST is answered without a body read, *)
(* an audit write or a gateway call: 204 with an empty body for OPTIONS,   *)
(* 405 with an ok:false body otherwise; and every response written carries *)
(* the three CORS headers.                                                 *)
(***************************************************************************)
C8_NonPostAnsweredAtTheGate ==
    /\ \A r \in Requests :
          method[r] \notin {"", "POST"}
              => /\ Done(r) /\ ~bodyRead[r]
                 /\ nAudit[r] = 0 /\ audit[r].state = "none" /\ nFetch[r] = 0
                 /\ Len(written[r]) = 1
                 /\ IF method[r] = "OPTIONS"
                    THEN Resp(r).status = 204 /\ Resp(r).empty
                    ELSE Resp(r).status = 405 /\ ~Resp(r).empty /\ ~Resp(r).ok
    /\ \A r \in Requests : \A i \in 1..Len(written[r]) :
          { "Access-Control-Allow-Origin", "Access-Control-Allow-Methods",
            "Access-Control-Allow-Headers" } \subseteq written[r][i].headers

C8_Witness ==
    \E r \in Requests :
        /\ method[r] = "GET" /\ Done(r) /\ reqno[r] > 1
        /\ Resp(r).status = 405 /\ ~bodyRead[r]
        /\ "Access-Control-Allow-Origin" \in Resp(r).headers

(***************************************************************************)
(* C9: the response does not depend on the audit write: requests with the  *)
(* same input and the same gateway outcome get the same response whatever  *)
(* became of their audit writes, and the settling of an audit write never  *)
(* changes the position of the handler or what it has written.             *)
(***************************************************************************)
Finished(r) == pc[r] \in {"done", "crashed"}

C9_SameResponse ==
    \A r1, r2 \in Requests :
        ( /\ Finished(r1) /\ Finished(r2)
          /\ method[r1] = method[r2] /\ body[r1] = body[r2]
          /\ reply[r1] = reply[r2] )
        => written[r1] = written[r2]

C9_AuditStep ==
    \A r \in Requests :
        (audit[r].state = "inflight" /\ audit'[r].state = "settled")
            => (pc'[r] = pc[r] /\ written'[r] = written[r])

C9_AuditNeverReachesTheClient == []C9_SameResponse /\ [][C9_AuditStep]_vars

C9_Witness ==
    \E r1, r2 \in Requests :
        /\ r1 # r2 /\ Done(r1) /\ Done(r2)
        /\ Validated(r1) /\ body[r1] = body[r2] /\ reply[r1] = reply[r2]
        /\ Resp(r1).status = 200 /\ Resp(r2).status = 200
        /\ audit[r1].state = "settled" /\ ~audit[r1].stored /\ audit[r1].console
        /\ audit[r2].state = "inflight"

(***************************************************************************)
(* C10 as claimed: every request the handler receives issues exactly one   *)
(* audit-log write.                                                        *)
(***************************************************************************)
C10_EveryRequestLogged ==
    \A r \in Requests : Done(r) => nAudit[r] = 1

(***************************************************************************)
(* C10 amended: a request that passes validation (POST, JSON object body,  *)
(* non-empty userId and action) calls logAction exactly once, with         *)
(* {action, user_id: userId, payload: the whole body}; a request answered  *)
(* before that point calls it not at all, so actions_log never holds more  *)
(* rows than requests were received.                                       *)
(***************************************************************************)
C10_ValidatedRequestsLoggedOnce ==
    /\ \A r \in Requests :
          pc[r] \in {"awaiting", "done"}
              => IF Validated(r)
                 THEN /\ nAudit[r] = 1 /\ audit[r].state # "none"
                      /\ entry[r] = [action |-> body[r].f.action,
                                     user_id |-> body[r].f.userId,
                                     payload |-> body[r]]
                 ELSE nAudit[r] = 0 /\ audit[r].state = "none"
    /\ actions_log <= served

C10_Witness ==
    \E r \in Requests :
        /\ Done(r) /\ Validated(r) /\ nAudit[r] = 1 /\ audit[r].stored
        /\ reqno[r] > 1 /\ actions_log = 1

\* The request names an action outside the switch, or an action whose
\* fields fail the checks of its case.
FailsCaseChecks(r) ==
    LET f == body[r].f
    IN /\ Validated(r)
       /\ \/ f.action \notin { Str("getBalanceAndTaskStatus"), Str("addPoints"),
                                Str("claimTaskReward"), Str("watchAd"), Str("executeSwap"),
                                Str("spin"), Str("ref") }
          \/ f.action = Str("addPoints") /\ (f.points.t # "num" \/ f.points.n < 0)
          \/ f.action = Str("claimTaskReward")
             /\ (f.task # Str("joinChannel") \/ f.reward.t # "num")
          \/ f.action = Str("watchAd") /\ f.reward.t # "num"
          \/ f.action = Str("executeSwap")
             /\ (f.newPoints.t # "num" \/ ~Truthy(f.newUsdt))

\* The request has failed with the error of its case check.
FailedCaseCheck(r) ==
    /\ Done(r) /\ FailsCaseChecks(r)
    /\ ~Resp(r).ok
    /\ \/ Includes(Resp(r).error, "Invalid")
       \/ Includes(Resp(r).error, "Unknown action")

\* C11 as stated: a validated request that names an unrecognized action, or
\* an action whose fields fail its case check, fails with the validation
\* error and no gateway call at all has been issued for it: neither a call
\* on the users table nor the audit-log write.
C11_NoGatewayCallBeforeFailure ==
    \A r \in Requests :
        (Done(r) /\ FailsCaseChecks(r))
            => FailedCaseCheck(r) /\ nFetch[r] = 0 /\ nAudit[r] = 0

\* C11: such a request fails with the validation error of its case and no
\* gateway call on the users table has been issued for it; the one gateway
\* call issued before the failure is the audit-log write logAction made
\* ahead of the switch.
C11_NoUsersCallBeforeFailure ==
    \A r \in Requests :
        (Done(r) /\ FailsCaseChecks(r))
            => /\ FailedCaseCheck(r)
               /\ nFetch[r] = 0 /\ call[r] = NoCall /\ reply[r] = NoReply
               /\ nAudit[r] = 1 /\ audit[r].state # "none"

C11_Witness ==
    \E r \in Requests :
        /\ FailedCaseCheck(r) /\ reqno[r] > 1
        /\ body[r].f.action = Str("addPoints") /\ body[r].f.points = Num(-1)
        /\ nFetch[r] = 0 /\ nAudit[r] = 1

\* C12: in every revision the Prefer header callSupabase sends is
\* 'return=minimal' on a POST to actions_log, 'return=representation' on
\* every other POST and on every PATCH, and absent on a GET.
C12_PreferFollowsTheCall ==
    \A r \in Requests :
        /\ prefer[r].audit \in {"unsent", "return=minimal"}
        /\ prefer[r].users # "unsent"
              => prefer[r].users = IF call[r].method = "GET" THEN "absent"
                                   ELSE "return=representation"

\* C13: with every account starting at ads_left >= 0 and points >= 0, after
\* any sequence and interleaving of validated requests every account still
\* has ads_left >= 0 and points >= 0.
C13_BalancesStayNonNegative ==
    (\A u \in DOMAIN users0 : users0[u].ads_left >= 0 /\ users0[u].points >= 0)
        => \A u \in DOMAIN users : users[u].ads_left >= 0 /\ users[u].points >= 0

\* Request r's claimTaskReward update is the gateway call this step serves.
ClaimServed(r) ==
    /\ pc[r] = "awaiting" /\ pc'[r] = "done"
    /\ IsAction(r, "claimTaskReward")
    /\ call[r].method = "PATCH" /\ call[r].patch.join_status = Str("claimed")

\* Every step leaves join_status alone, or is a claimTaskReward update
\* taking the account it names from 'check' to 'claimed'.
C14_Step ==
    \A u \in DOMAIN users :
        users'[u].join_status # users[u].join_status
            => /\ users[u].join_status = "check"
               /\ users'[u].join_status = "claimed"
               /\ \E r \in Requests : ClaimServed(r) /\ AccountOf(r) = u

C15_ExactlyOneResponse ==
    \A r \in Requests :
        /\ Len(written[r]) <= 1
        /\ Done(r) => Len(written[r]) = 1
        /\ pc[r] \in {"idle", "reading", "awaiting"} => Len(written[r]) = 0

C15_Witness ==
    \E r \in Requests :
        /\ Done(r) /\ bodyRead[r] /\ nFetch[r] = 1 /\ reply[r] # NoReply
        /\ result[r].thrown /\ reqno[r] > 1
        /\ Len(written[r]) = 1 /\ ~Resp(r).ok

====
